---- MODULE Spec2Model ----
(***************************************************************************)
(* A model of async_api_client/api_client.py: the ApiClient class, its     *)
(* session lifecycle (initialize / shutdown), the one-shot calls           *)
(* (get / post -> _request) and the streaming calls                        *)
(* (stream_get / stream_post -> _stream).                                  *)
(*                                                                         *)
(* Python values are represented as follows.                               *)
(*   - an Optional value is a set with at most one element: None is {} and *)
(*     a present value v is {v};                                           *)
(*   - a str is a sequence of one-character strings;                       *)
(*   - a bytes object is a sequence of integers 0..255;                    *)
(*   - a Dict[str, str] is a function from a finite set of keys.           *)
(***************************************************************************)
EXTENDS Integers, Sequences, FiniteSets, TLC

VARIABLES
    base_url,     \* self.base_url : Optional[str]
    headers,      \* self.headers  : Dict[str, str]
    timeout,      \* self.timeout  : Optional number
    session,      \* self.session  : Optional[session id]
    created,      \* every aiohttp.ClientSession constructed so far
    closed,       \* the sessions whose close() has completed
    sessTimeout,  \* ClientSession.timeout of every created session
    pc,           \* per task: where the coroutine it runs is suspended
    closing,      \* per task: the session whose close() the task awaits
    last,         \* the operation most recently started, with its arguments,
                  \* the configuration it found and what it did
    blocks,       \* streaming call: the raw blocks read so far
    ops,          \* streaming call: the chunk_callback invocations so far
    resp          \* the response of the call in progress or last made, with
                  \* the call's return_type

cfgVars    == <<base_url, headers, timeout>>
sessVars   == <<session, created, closed, sessTimeout>>
streamVars == <<blocks, ops, resp>>
vars == <<base_url, headers, timeout, session, created, closed, sessTimeout,
          pc, closing, last, blocks, ops, resp>>

----------------------------------------------------------------------------
(* Bounds *)

MaxSessions == 2      \* sessions constructed in one behaviour
MaxBlocks   == 2      \* blocks the engine delivers to one streaming call

Tasks    == {"main", "other"}
MainTask == "main"

----------------------------------------------------------------------------
(* Python values *)

None    == {}
Some(v) == {v}
Val(o)  == CHOOSE v \in o : TRUE

\* Truth value of an Optional[str]: None and "" are falsy.
TruthyStr(o) == o # None /\ Val(o) # <<>>
\* Truth value of an Optional[dict]: None and {} are falsy.
TruthyDict(o) == o # None /\ DOMAIN Val(o) # {}
\* Truth value of an Optional number: None and 0 are falsy.
TruthyNum(o) == o # None /\ Val(o) # 0

EmptyDict == <<>>

RECURSIVE rstrip(_, _)
\* str.rstrip(chars): drop every trailing character that is in chars.
rstrip(s, chars) ==
    IF s # <<>> /\ s[Len(s)] \in chars
    THEN rstrip(SubSeq(s, 1, Len(s) - 1), chars)
    ELSE s

RECURSIVE lstrip(_, _)
\* str.lstrip(chars): drop every leading character that is in chars.
lstrip(s, chars) ==
    IF s # <<>> /\ s[1] \in chars THEN lstrip(Tail(s), chars) ELSE s

\* str.startswith(prefix)
startswith(s, prefix) ==
    Len(s) >= Len(prefix) /\ SubSeq(s, 1, Len(prefix)) = prefix

----------------------------------------------------------------------------
(* Argument values the callers pass *)

HTTP == <<"h", "t", "t", "p">>

UrlBaseH      == HTTP \o <<":", "/", "/", "h">>           \* "http://h"
UrlBaseHSlash == UrlBaseH \o <<"/">>                      \* "http://h/"
UrlBaseHTwo   == UrlBaseH \o <<"/", "/">>                 \* "http://h//"


UrlP        == <<"p">>                                    \* "p"
UrlTwoP     == <<"/", "/", "p">>                          \* "//p"
UrlOther    == HTTP \o <<":", "/", "/", "o", "/", "x">>   \* "http://other/x"
UrlHttpbin  == HTTP \o <<"b", "i", "n", "/", "p">>        \* "httpbin/p"

CallUrls == {UrlP, UrlTwoP, UrlOther, UrlHttpbin}

HeadersAB == [k \in {"A", "B"} |-> IF k = "A" THEN "1" ELSE "2"]
HeadersBC == [k \in {"B", "C"} |-> IF k = "B" THEN "3" ELSE "4"]


Bodies == {None, Some("payload")}

\* __init__ arguments
CtorBaseUrls == {None, Some(UrlBaseHSlash)}
CtorHeaders  == {None, Some(HeadersAB)}
CtorTimeouts == {Some(5), Some(60)}

\* initialize arguments, for the parameters the caller provides
InitializeParams == {"base_url", "headers", "timeout"}
InitBaseUrls == {Some(UrlBaseH), Some(UrlBaseHTwo)}
InitHeaders  == {Some(EmptyDict), Some(HeadersBC)}
InitTimeouts == {None, Some(0), Some(5)}

\* per-call arguments
CallHeaders  == {None, Some(HeadersBC)}
CallTimeouts == {None, Some(0), Some(5)}

----------------------------------------------------------------------------
(* The record kept of the operation most recently started *)

Cfg == [base_url |-> base_url, headers |-> headers, timeout |-> timeout,
        session |-> session]

\* A record of operation op started now, before it has done anything.
Started(op, given, url, h, body, t) ==
    [op |-> op, given |-> given, pre |-> Cfg, preClosed |-> closed,
     url |-> url, hdrs |-> h, body |-> body, tmo |-> t,
     raised |-> "none", sent |-> <<>>, result |-> None]

\* No response: no request has been answered.
NoResp(rt) ==
    [state |-> "none", ctype |-> "", body |-> <<>>, fault |-> "none",
     rtype |-> rt]

----------------------------------------------------------------------------
(* __init__ *)

InitWith(b, h, t) ==
    /\ base_url = b
    /\ headers = IF TruthyDict(h) THEN Val(h) ELSE EmptyDict
    /\ timeout = t
    /\ session = None
    /\ created = {}
    /\ closed = {}
    /\ sessTimeout = <<>>
    /\ pc = [k \in Tasks |-> "idle"]
    /\ closing = [k \in Tasks |-> None]
    /\ last = [op |-> "__init__", given |-> {},
               pre |-> [base_url |-> b,
                        headers |-> IF TruthyDict(h) THEN Val(h) ELSE EmptyDict,
                        timeout |-> t, session |-> None],
               preClosed |-> {}, url |-> <<>>, hdrs |-> None, body |-> None,
               tmo |-> None, raised |-> "none", sent |-> <<>>,
               result |-> None]
    /\ blocks = <<>>
    /\ ops = <<>>
    /\ resp = NoResp(None)

Init ==
    \E b \in CtorBaseUrls, h \in CtorHeaders, t \in CtorTimeouts : InitWith(b, h, t)

----------------------------------------------------------------------------
(* initialize / shutdown *)

\* Variant: the session is constructed without the timeout argument and has
\* the engine's own default total.
CreateSessionEngineDefault(t) ==
    LET id == Cardinality(created) + 1
    IN /\ created' = created \cup {id}
       /\ sessTimeout' = Append(sessTimeout, Some(300))
       /\ session' = Some(id)

\* aiohttp.ClientSession(timeout=aiohttp.ClientTimeout(total=self.timeout)),
\* assigned to self.session; t is self.timeout when the line runs.
CreateSession(t) ==
    LET id == Cardinality(created) + 1
    IN /\ created' = created \cup {id}
       /\ sessTimeout' = Append(sessTimeout, t)
       /\ session' = Some(id)

\* The default of initialize's timeout parameter.
InitializeTimeoutDefault == Some(60)

\* Variant: initialize never finds a session to close.
InitializeNeverCloses(s) == FALSE

\* if self.session: in initialize
InitializeHasSession(s) == s # None

\* Variant: close() leaves the session open.
CloseSessionNoop(cl, s) == cl

\* The effect of a completed `await session.close()` on the closed sessions.
CloseSession(cl, s) == cl \cup s

\* initialize up to its first suspension point: the configuration update, and
\* either the start of the old session's close() or, with no session, the
\* construction of the new one.
Initialize(task, given, b, h, t) ==
    /\ pc[task] = "idle"
    /\ Cardinality(created) < MaxSessions
    /\ LET bp == IF "base_url" \in given THEN b ELSE None
           hp == IF "headers" \in given THEN h ELSE None
           tp == IF "timeout" \in given THEN t ELSE InitializeTimeoutDefault
           nt == IF TruthyNum(tp) THEN tp ELSE timeout
       IN /\ base_url' = IF TruthyStr(bp) THEN bp ELSE base_url
          /\ headers' = IF TruthyDict(hp) THEN Val(hp) ELSE headers
          /\ timeout' = nt
          /\ last' = Started("initialize", given, <<>>, hp, None, tp)
          /\ IF InitializeHasSession(session)
             THEN /\ pc' = [pc EXCEPT ![task] = "init_close"]
                  /\ closing' = [closing EXCEPT ![task] = session]
                  /\ UNCHANGED <<sessVars>>
             ELSE /\ CreateSession(nt)
                  /\ UNCHANGED <<pc, closing, closed>>
    /\ UNCHANGED streamVars

\* initialize resumed when close() has completed: self.session = None, then
\* the new session.
InitializeResume(task) ==
    /\ pc[task] = "init_close"
    /\ closed' = CloseSession(closed, closing[task])
    /\ CreateSession(timeout)
    /\ pc' = [pc EXCEPT ![task] = "idle"]
    /\ closing' = [closing EXCEPT ![task] = None]
    /\ UNCHANGED <<cfgVars, last, streamVars>>

\* if self.session: in shutdown
ShutdownHasSession(s) == s # None

\* shutdown up to its suspension point.
Shutdown(task) ==
    /\ pc[task] = "idle"
    /\ last' = Started("shutdown", {}, <<>>, None, None, None)
    /\ IF ShutdownHasSession(session)
       THEN /\ pc' = [pc EXCEPT ![task] = "shut_close"]
            /\ closing' = [closing EXCEPT ![task] = session]
       ELSE UNCHANGED <<pc, closing>>
    /\ UNCHANGED <<cfgVars, sessVars, streamVars>>

\* Variant: shutdown closes the session and leaves it in self.session.
ShutdownResumeKeeps(task) ==
    /\ pc[task] = "shut_close"
    /\ closed' = CloseSession(closed, closing[task])
    /\ pc' = [pc EXCEPT ![task] = "idle"]
    /\ closing' = [closing EXCEPT ![task] = None]
    /\ UNCHANGED <<cfgVars, session, created, sessTimeout, last, streamVars>>

\* shutdown resumed when close() has completed: self.session = None.
ShutdownResume(task) ==
    /\ pc[task] = "shut_close"
    /\ closed' = CloseSession(closed, closing[task])
    /\ session' = None
    /\ pc' = [pc EXCEPT ![task] = "idle"]
    /\ closing' = [closing EXCEPT ![task] = None]
    /\ UNCHANGED <<cfgVars, created, sessTimeout, last, streamVars>>

----------------------------------------------------------------------------
(* Per-call resolution of timeout, URL and headers (_request and _stream) *)

Method(op) == IF op \in {"get", "stream_get"} THEN "GET" ELSE "POST"

\* Variant: the override is tested with `is not None`, so 0 overrides.
EffectiveTimeoutIfNotNone(t, s) == IF t # None THEN t ELSE sessTimeout[Val(s)]

\* aiohttp.ClientTimeout(total=timeout) if timeout else self.session.timeout;
\* a ClientTimeout is represented by its total.
EffectiveTimeout(t, s) == IF TruthyNum(t) THEN t ELSE sessTimeout[Val(s)]

\* if self.base_url and not url.startswith("http"):
\*     url = f"{self.base_url.rstrip('/')}/{url.lstrip('/')}"
ResolveUrl(b, url) ==
    IF TruthyStr(b) /\ ~startswith(url, HTTP)
    THEN rstrip(Val(b), {"/"}) \o <<"/">> \o lstrip(url, {"/"})
    ELSE url

\* dict.update
DictUpdate(d, u) ==
    [k \in DOMAIN d \cup DOMAIN u |-> IF k \in DOMAIN u THEN u[k] ELSE d[k]]

\* Variant: the defaults are applied over the per-call headers.
MergeHeadersDefaultsWin(d, h) == IF TruthyDict(h) THEN DictUpdate(Val(h), d) ELSE d

\* req_headers = self.headers.copy(); if headers: req_headers.update(headers)
MergeHeaders(d, h) == IF TruthyDict(h) THEN DictUpdate(d, Val(h)) ELSE d

\* Variant: the test of the method is inverted.
JsonArgForGet(method, body) == IF method = "GET" THEN body ELSE None

\* json=body if method != "GET" else None
JsonArg(method, body) == IF method # "GET" THEN body ELSE None

\* Variant: req_headers is self.headers itself, so update() changes it.
HeadersAliased(d, h) == MergeHeaders(d, h)

\* self.headers after req_headers = self.headers.copy() and the update of
\* the copy: unchanged.
HeadersAfterCall(d, h) == d

\* The arguments of self.session.request(...)
RequestArgs(op, url, h, body, t) ==
    [session |-> session,
     method  |-> Method(op),
     url     |-> ResolveUrl(base_url, url),
     json    |-> JsonArg(Method(op), body),
     headers |-> MergeHeaders(headers, h),
     timeout |-> EffectiveTimeout(t, session)]

\* Variant: the call returns None instead of raising.
ReturnsSilently(l) == l

\* raise RuntimeError("ApiClient not initialized")
RaiseUninitialized(l) == [l EXCEPT !.raised = "RuntimeError"]

----------------------------------------------------------------------------
(* get / post *)

\* The response bodies of the model, as text
BodyHello == <<"h", "e", "l", "l", "o">>             \* hello
BodyX1    == <<"{", "\"", "x", "\"", ":", "1", "}">>  \* {"x":1}

ResponseBodies == {BodyHello, BodyX1}

ContentTypes == {"application/json", "text/plain"}

ReturnTypes == {None, Some("Instance")}

\* What a call returns: text, a decoded JSON mapping, or an instance a
\* return_type built from a mapping.
TextResult(text) == [kind |-> "text", cls |-> "", text |-> text, data |-> <<>>]
JsonResult(data) == [kind |-> "json", cls |-> "", text |-> <<>>, data |-> data]

\* return_type.from_dict(data)
from_dict(rt, data) ==
    [kind |-> "instance", cls |-> Val(rt), text |-> <<>>, data |-> data]

\* await resp.json() on the bodies of the model: Some(the decoded mapping),
\* or None when the body is not JSON (a decode error).
JsonDecode(text) ==
    IF text = BodyX1 THEN Some([k \in {"x"} |-> 1]) ELSE None

\* Variant: the factory is skipped.
ResultRaw(rt, data) == JsonResult(data)

\* if return_type: return return_type.from_dict(data) / return data
ResultOf(rt, data) == IF rt # None THEN from_dict(rt, data) ELSE JsonResult(data)

\* Variant: the response is left open when the `async with` block is left.
NotReleased(r) == r

\* Leaving the `async with` block releases the response, if one was opened.
Released(r) == [r EXCEPT !.state = IF @ = "open" THEN "released" ELSE @]

\* Variant: _request does not test self.session.
RequestNeverChecks(s) == TRUE

\* if not self.session: in _request
RequestHasSession(s) == s # None

\* Variant: a transport failure makes _request issue the request again.
RequestRetry(task, err) ==
    /\ pc' = [pc EXCEPT ![task] = "request_wait"]
    /\ last' = [last EXCEPT !.sent = Append(@, @[1])]

\* An exception leaves _request: the call ends and its caller gets err.
RequestRaise(task, err) ==
    /\ pc' = [pc EXCEPT ![task] = "idle"]
    /\ last' = [last EXCEPT !.raised = err]

\* _request, called by get (body None) and post, up to the request being
\* issued: no await lies between the test of self.session and
\* self.session.request(...). Taking an attribute of None raises
\* AttributeError.
Request(task, op, url, rt, h, body, t) ==
    /\ pc[task] = "idle"
    /\ blocks' = <<>>
    /\ ops' = <<>>
    /\ resp' = NoResp(rt)
    /\ headers' = HeadersAfterCall(headers, h)
    /\ IF ~RequestHasSession(session)
       THEN /\ last' = RaiseUninitialized(Started(op, {}, url, h, body, t))
            /\ pc' = pc
       ELSE IF session = None
       THEN /\ last' = [Started(op, {}, url, h, body, t) EXCEPT
                           !.raised = "AttributeError"]
            /\ pc' = pc
       ELSE /\ last' = [Started(op, {}, url, h, body, t) EXCEPT
                           !.sent = <<RequestArgs(op, url, h, body, t)>>]
            /\ pc' = [pc EXCEPT ![task] = "request_wait"]
    /\ UNCHANGED <<base_url, timeout, sessVars, closing>>

Get(task, url, rt, h, t) == Request(task, "get", url, rt, h, None, t)

Post(task, url, body, rt, h, t) == Request(task, "post", url, rt, h, body, t)

\* The response arrives: `async with ... as resp` is entered, and _request
\* awaits resp.json() or resp.text().
RequestResponse(task, ctype, text) ==
    /\ pc[task] = "request_wait"
    /\ resp' = [resp EXCEPT !.state = "open", !.ctype = ctype, !.body = text]
    /\ pc' = [pc EXCEPT ![task] = "request_body"]
    /\ UNCHANGED <<cfgVars, sessVars, closing, last, blocks, ops>>

\* The body has been read: _request returns the instance, the decoded
\* payload or the text, or the JSON decoder raises.
RequestBody(task) ==
    /\ pc[task] = "request_body"
    /\ resp' = Released(resp)
    /\ IF resp.ctype = "application/json"
       THEN IF JsonDecode(resp.body) = None
            THEN RequestRaise(task, "JSONDecodeError")
            ELSE /\ last' = [last EXCEPT !.result =
                        Some(ResultOf(resp.rtype, Val(JsonDecode(resp.body))))]
                 /\ pc' = [pc EXCEPT ![task] = "idle"]
       ELSE /\ last' = [last EXCEPT !.result = Some(TextResult(resp.body))]
            /\ pc' = [pc EXCEPT ![task] = "idle"]
    /\ UNCHANGED <<cfgVars, sessVars, closing, blocks, ops>>

\* The engine reports a transport failure, when the request is issued or
\* while the body is read.
RequestTransportFails(task) ==
    /\ pc[task] \in {"request_wait", "request_body"}
    /\ resp' = [Released(resp) EXCEPT
                  !.fault = IF pc[task] = "request_wait" THEN "issue" ELSE "body"]
    /\ RequestRaise(task, "TransportError")
    /\ UNCHANGED <<cfgVars, sessVars, closing, blocks, ops>>

----------------------------------------------------------------------------
(* Decoding and trimming of a streamed block *)

\* A continuation byte 10xxxxxx
IsCont(b) == b \in 128..191

RECURSIVE Utf8Decode(_)
\* bytes.decode("utf-8") in strict mode: Some(the sequence of code points), or
\* None when the bytes are not well-formed UTF-8 (UnicodeDecodeError).
Utf8Decode(raw) ==
    LET n == Len(raw)
        b1 == raw[1]
        \* the code point at the head of raw and the number of bytes it takes;
        \* 0 bytes when the head is malformed or truncated
        head ==
            IF b1 < 128 THEN <<b1, 1>>
            ELSE IF b1 \in 194..223 /\ n >= 2 /\ IsCont(raw[2])
            THEN <<(b1 - 192) * 64 + (raw[2] - 128), 2>>
            ELSE IF /\ b1 \in 224..239 /\ n >= 3
                    /\ IsCont(raw[2]) /\ IsCont(raw[3])
                    /\ (b1 = 224 => raw[2] >= 160)
                    /\ (b1 = 237 => raw[2] <= 159)
            THEN <<(b1 - 224) * 4096 + (raw[2] - 128) * 64 + (raw[3] - 128), 3>>
            ELSE IF /\ b1 \in 240..244 /\ n >= 4
                    /\ IsCont(raw[2]) /\ IsCont(raw[3]) /\ IsCont(raw[4])
                    /\ (b1 = 240 => raw[2] >= 144)
                    /\ (b1 = 244 => raw[2] <= 143)
            THEN <<(b1 - 240) * 262144 + (raw[2] - 128) * 4096
                     + (raw[3] - 128) * 64 + (raw[4] - 128), 4>>
            ELSE <<0, 0>>
    IN IF raw = <<>> THEN Some(<<>>)
       ELSE IF head[2] = 0 THEN None
       ELSE LET rest == Utf8Decode(SubSeq(raw, head[2] + 1, n))
            IN IF rest = None THEN None ELSE Some(<<head[1]>> \o Val(rest))

\* The code points str.strip() removes (those for which str.isspace holds)
Whitespace ==
    (9..13) \cup (28..32) \cup {133, 160, 5760} \cup (8192..8202)
        \cup {8232, 8233, 8239, 8287, 12288}

\* str.strip()
strip(text) == lstrip(rstrip(text, Whitespace), Whitespace)

\* Variant: the callback is called for an empty text too.
TextAlwaysTruthy(text) == TRUE

\* if text:
TextIsTruthy(text) == text # <<>>

----------------------------------------------------------------------------
(* stream_get / stream_post *)

\* Blocks resp.content delivers: " a ", " \n", "e-acute", the first byte of a
\* two-byte character cut off by the block boundary, a no-break space, "a b".
StreamBlocks ==
    {<<32, 97, 32>>, <<32, 10>>, <<195, 169>>, <<195>>, <<194, 160>>,
     <<97, 32, 98>>}

\* What chunk_callback(text) does: return None, raise, return a coroutine
\* object, or return another awaitable that is already scheduled (an
\* asyncio.Future or asyncio.Task).
CallbackKinds == {"none", "raise", "coroutine", "future"}

\* asyncio.iscoroutine(result)
IsCoroutine(kind) == kind = "coroutine"

\* The state of the callback's work when chunk_callback(text) has returned.
CallStatus(kind) ==
    CASE kind = "none" -> "done"
      [] kind = "raise" -> "failed"
      [] OTHER -> "running"

\* if not self.session: in _stream
StreamHasSession(s) == s # None

\* _stream up to the request being issued.
Stream(task, op, url, h, body, t) ==
    /\ pc[task] = "idle"
    /\ blocks' = <<>>
    /\ ops' = <<>>
    /\ resp' = NoResp(None)
    /\ headers' = HeadersAfterCall(headers, h)
    /\ IF ~StreamHasSession(session)
       THEN /\ last' = RaiseUninitialized(Started(op, {}, url, h, body, t))
            /\ pc' = pc
       ELSE IF session = None
       THEN /\ last' = [Started(op, {}, url, h, body, t) EXCEPT
                           !.raised = "AttributeError"]
            /\ pc' = pc
       ELSE /\ last' = [Started(op, {}, url, h, body, t) EXCEPT
                           !.sent = <<RequestArgs(op, url, h, body, t)>>]
            /\ pc' = [pc EXCEPT ![task] = "stream_wait"]
    /\ UNCHANGED <<base_url, timeout, sessVars, closing>>

StreamGet(task, url, h, t) == Stream(task, "stream_get", url, h, None, t)

StreamPost(task, url, body, h, t) == Stream(task, "stream_post", url, h, body, t)

\* Variant: the exception is caught in the loop, which goes on.
Swallow(task, err) ==
    /\ pc' = [pc EXCEPT ![task] = "stream_read"]
    /\ last' = last

\* An exception leaves _stream: the call ends and its caller gets err.
Propagate(task, err) ==
    /\ pc' = [pc EXCEPT ![task] = "idle"]
    /\ last' = [last EXCEPT !.raised = err]

\* The response arrives: `async with ... as resp` is entered and the loop
\* awaits the first block.
StreamResponse(task) ==
    /\ pc[task] = "stream_wait"
    /\ resp' = [resp EXCEPT !.state = "open"]
    /\ pc' = [pc EXCEPT ![task] = "stream_read"]
    /\ UNCHANGED <<cfgVars, sessVars, closing, last, blocks, ops>>

\* The engine reports a transport failure, when the request is issued or
\* while a block is awaited.
StreamTransportFails(task) ==
    /\ pc[task] \in {"stream_wait", "stream_read"}
    /\ resp' = [Released(resp) EXCEPT
                  !.fault = IF pc[task] = "stream_wait" THEN "issue" ELSE "body"]
    /\ Propagate(task, "TransportError")
    /\ UNCHANGED <<cfgVars, sessVars, closing, blocks, ops>>

\* One iteration of `async for raw_chunk in resp.content.iter_any(1024)` up to
\* its next suspension point: the block arrives, is decoded and stripped, and
\* chunk_callback is called when the text is not empty.
StreamRead(task, raw, kind) ==
    /\ pc[task] = "stream_read"
    /\ Len(blocks) < MaxBlocks
    /\ blocks' = Append(blocks, raw)
    /\ LET decoded == Utf8Decode(raw)
           text == strip(Val(decoded))
           call == [block |-> Len(blocks) + 1, text |-> text, kind |-> kind,
                    status |-> CallStatus(kind)]
       IN IF decoded = None
          THEN /\ ops' = ops
               /\ resp' = Released(resp)
               /\ Propagate(task, "UnicodeDecodeError")
          ELSE IF ~TextIsTruthy(text)
          THEN UNCHANGED <<ops, pc, last, resp>>
          ELSE /\ ops' = Append(ops, call)
               /\ IF kind = "raise"
                  THEN /\ resp' = Released(resp)
                       /\ Propagate(task, "CallbackError")
                  ELSE IF IsCoroutine(kind)
                  THEN /\ pc' = [pc EXCEPT ![task] = "stream_await"]
                       /\ UNCHANGED <<last, resp>>
                  ELSE UNCHANGED <<pc, last, resp>>
    /\ UNCHANGED <<cfgVars, sessVars, closing>>

\* `await result` returns or raises: the coroutine the last callback returned
\* has run to its end.
StreamAwaitDone(task, ok) ==
    /\ pc[task] = "stream_await"
    /\ ops' = [ops EXCEPT ![Len(ops)].status = IF ok THEN "done" ELSE "failed"]
    /\ IF ok
       THEN /\ pc' = [pc EXCEPT ![task] = "stream_read"]
            /\ UNCHANGED <<last, resp>>
       ELSE /\ resp' = Released(resp)
            /\ Propagate(task, "CallbackError")
    /\ UNCHANGED <<cfgVars, sessVars, closing, blocks>>

\* The event loop completes a future or task a callback returned; _stream
\* holds no reference to it.
FutureDone(i) ==
    /\ i \in DOMAIN ops
    /\ ops[i].kind = "future"
    /\ ops[i].status = "running"
    /\ ops' = [ops EXCEPT ![i].status = "done"]
    /\ UNCHANGED <<cfgVars, sessVars, pc, closing, last, blocks, resp>>

\* The body is exhausted: the loop and the `async with` end, _stream returns.
StreamEof(task) ==
    /\ pc[task] = "stream_read"
    /\ pc' = [pc EXCEPT ![task] = "idle"]
    /\ resp' = Released(resp)
    /\ UNCHANGED <<cfgVars, sessVars, closing, last, blocks, ops>>

----------------------------------------------------------------------------
(* Specifications *)

\* One caller, each call run to completion before the next; the engine never
\* fails, answers a one-shot call with the text "hello" and a streaming call
\* with an empty body.
Next ==
    \/ \E given \in SUBSET InitializeParams :
         \E b \in IF "base_url" \in given THEN InitBaseUrls ELSE {None},
            h \in IF "headers" \in given THEN InitHeaders ELSE {None},
            t \in IF "timeout" \in given THEN InitTimeouts ELSE {None} :
              Initialize(MainTask, given, b, h, t)
    \/ InitializeResume(MainTask)
    \/ Shutdown(MainTask)
    \/ ShutdownResume(MainTask)
    \/ \E url \in CallUrls, h \in CallHeaders, t \in CallTimeouts :
         Get(MainTask, url, None, h, t)
    \/ \E url \in CallUrls, body \in Bodies, h \in CallHeaders, t \in CallTimeouts :
         Post(MainTask, url, body, None, h, t)
    \/ RequestResponse(MainTask, "text/plain", BodyHello)
    \/ RequestBody(MainTask)
    \/ StreamResponse(MainTask)
    \/ \E url \in CallUrls, h \in CallHeaders, t \in CallTimeouts :
         StreamGet(MainTask, url, h, t)
    \/ \E url \in CallUrls, body \in Bodies, h \in CallHeaders, t \in CallTimeouts :
         StreamPost(MainTask, url, body, h, t)
    \/ StreamEof(MainTask)

Spec == Init /\ [][Next]_vars

\* One caller streaming from a client constructed with base URL "http://h/";
\* the engine delivers up to MaxBlocks blocks per call.
InitStream == InitWith(Some(UrlBaseHSlash), Some(HeadersAB), Some(60))

NextStream ==
    \/ Initialize(MainTask, {}, None, None, None)
    \/ InitializeResume(MainTask)
    \/ Shutdown(MainTask)
    \/ ShutdownResume(MainTask)
    \/ StreamGet(MainTask, UrlP, None, None)
    \/ StreamPost(MainTask, UrlP, Some("payload"), None, Some(5))
    \/ StreamResponse(MainTask)
    \/ StreamTransportFails(MainTask)
    \/ \E raw \in StreamBlocks, kind \in CallbackKinds :
         StreamRead(MainTask, raw, kind)
    \/ \E ok \in BOOLEAN : StreamAwaitDone(MainTask, ok)
    \/ \E i \in 1..MaxBlocks : FutureDone(i)
    \/ StreamEof(MainTask)

SpecStream == InitStream /\ [][NextStream]_vars

\* The same caller making one-shot calls too; the engine answers with either
\* content type and either body, or fails.
NextEngine ==
    \/ NextStream
    \/ \E rt \in ReturnTypes : Get(MainTask, UrlP, rt, None, None)
    \/ \E rt \in ReturnTypes : Post(MainTask, UrlP, Some("payload"), rt, Some(HeadersBC), None)
    \/ \E ctype \in ContentTypes, text \in ResponseBodies :
         RequestResponse(MainTask, ctype, text)
    \/ RequestBody(MainTask)
    \/ RequestTransportFails(MainTask)

SpecEngine == InitStream /\ [][NextEngine]_vars

\* A step of the streaming call in progress.
StreamStep ==
    \/ StreamResponse(MainTask)
    \/ \E raw \in StreamBlocks, kind \in CallbackKinds :
         StreamRead(MainTask, raw, kind)
    \/ \E ok \in BOOLEAN : StreamAwaitDone(MainTask, ok)
    \/ StreamTransportFails(MainTask)
    \/ StreamEof(MainTask)

\* SpecEngine with an engine that answers, delivers the blocks of the body
\* and ends it, and with callbacks whose coroutines complete: the event loop
\* resumes a streaming call whenever what it awaits is ready.
SpecLive == SpecEngine /\ WF_vars(StreamStep)

\* Two tasks on the event loop, interleaved at the awaits: both run
\* initialize and shutdown, the first also makes calls.
NextConc ==
    \/ \E task \in Tasks : Initialize(task, {}, None, None, None)
    \/ \E task \in Tasks : InitializeResume(task)
    \/ \E task \in Tasks : Shutdown(task)
    \/ \E task \in Tasks : ShutdownResume(task)
    \/ Get(MainTask, UrlP, None, None, None)
    \/ RequestResponse(MainTask, "text/plain", BodyHello)
    \/ RequestBody(MainTask)
    \/ StreamGet(MainTask, UrlP, None, Some(5))
    \/ StreamResponse(MainTask)
    \/ StreamEof(MainTask)

SpecConc == InitStream /\ [][NextConc]_vars

----------------------------------------------------------------------------
(* Properties *)

CallOps == {"get", "post", "stream_get", "stream_post"}

\* The last operation started was op and has run to completion.
Completed(op) == last.op = op /\ pc[MainTask] = "idle"

\* The call most recently started, whichever it is, has issued a request.
Issued == last.op \in CallOps /\ last.sent # <<>>

\* blocks and ops are those of the operation most recently started.
InStreamCall == last.op \in {"stream_get", "stream_post"}

\* C1: every session ever created is the one the client holds or has been
\* closed, so at most one session is live; a completed initialize has closed
\* the session it found and holds a fresh, open one.
C1_OneLiveSession ==
    /\ \A s \in created : s \in session \/ s \in closed
    /\ Cardinality(created \ closed) <= 1
    /\ Completed("initialize") =>
         /\ session # None
         /\ session # last.pre.session
         /\ Val(session) \notin closed
         /\ Val(session) \notin last.preClosed
         /\ last.pre.session \subseteq closed

\* A re-initialize has completed: the session it found is closed and a new
\* one is held.
C1_Witness ==
    /\ Completed("initialize")
    /\ last.pre.session # None
    /\ Cardinality(created) = 2
    /\ closed = last.pre.session

\* C2: a call started while the client holds no session fails with the
\* uninitialized-client error, issues no request and invokes no callback.
C2_Uninitialized ==
    (last.op \in CallOps /\ last.pre.session = None) =>
        /\ last.raised = "RuntimeError"
        /\ last.sent = <<>>
        /\ ops = <<>>
        /\ pc[MainTask] = "idle"

\* stream_post called after the client was initialized and shut down.
C2_Witness ==
    /\ last.op = "stream_post"
    /\ last.pre.session = None
    /\ closed # {}
    /\ last.raised = "RuntimeError"

\* C3 (as claimed): a completed initialize leaves every configuration field
\* whose argument was omitted as it found it, and its session is bound to
\* the resulting timeout.
C3_OmittedFieldsKept ==
    Completed("initialize") =>
        /\ "base_url" \notin last.given => base_url = last.pre.base_url
        /\ "headers" \notin last.given => headers = last.pre.headers
        /\ "timeout" \notin last.given => timeout = last.pre.timeout
        /\ session # None
        /\ sessTimeout[Val(session)] = timeout

\* C4: a completed shutdown leaves no session held, raised nothing and left
\* the configuration alone; it closed the session it found, and nothing
\* when it found none.
C4_Shutdown ==
    Completed("shutdown") =>
        /\ session = None
        /\ last.raised = "none"
        /\ base_url = last.pre.base_url
        /\ headers = last.pre.headers
        /\ timeout = last.pre.timeout
        /\ closed = last.preClosed \cup last.pre.session
        /\ last.pre.session \subseteq closed

\* A second shutdown in a row: it found no session and a closed one.
C4_Witness ==
    /\ Completed("shutdown")
    /\ last.pre.session = None
    /\ last.preClosed # {}
    /\ closed = last.preClosed

\* text is d without its leading and trailing whitespace, and is not empty.
IsNonEmptyTrimOf(text, d) ==
    /\ text # <<>>
    /\ text[1] \notin Whitespace
    /\ text[Len(text)] \notin Whitespace
    /\ \E a \in 0..Len(d) :
         /\ a + Len(text) <= Len(d)
         /\ SubSeq(d, a + 1, a + Len(text)) = text
         /\ \A k \in 1..a : d[k] \in Whitespace
         /\ \A k \in (a + Len(text) + 1)..Len(d) : d[k] \in Whitespace

\* C5: the callback invocations of a streaming call are, in order, one for
\* each block read whose decoded text has a character that is not
\* whitespace, each with that block's trimmed text; no block has two.
C5_OncePerNonEmptyBlock ==
    /\ \A i \in DOMAIN ops :
         /\ ops[i].block \in DOMAIN blocks
         /\ Utf8Decode(blocks[ops[i].block]) # None
         /\ IsNonEmptyTrimOf(ops[i].text, Val(Utf8Decode(blocks[ops[i].block])))
    /\ \A i, j \in DOMAIN ops : i < j => ops[i].block < ops[j].block
    /\ \A j \in DOMAIN blocks :
         LET d == Utf8Decode(blocks[j])
         IN (d # None /\ \E k \in DOMAIN Val(d) : Val(d)[k] \notin Whitespace)
              => \E i \in DOMAIN ops : ops[i].block = j

\* An all-whitespace block followed by " a ": one invocation, with "a".
C5_Witness ==
    /\ blocks = << <<32, 10>>, <<32, 97, 32>> >>
    /\ Len(ops) = 1
    /\ ops[1].block = 2
    /\ ops[1].text = <<97>>

\* C6 (as claimed): what a callback started is running only while its block
\* is the last one read, so never while a later block is read or a later
\* callback runs.
C6_Alternate ==
    \A i \in DOMAIN ops :
        ops[i].status = "running" => ops[i].block = Len(blocks)

\* C7: a block that fails to decode, or a callback that fails (when called,
\* or when its coroutine is awaited), is the last block read and the last
\* callback invoked, and the call has ended with that failure.
C7_FailureAborts ==
    /\ \A j \in DOMAIN blocks :
         (InStreamCall /\ Utf8Decode(blocks[j]) = None) =>
            /\ j = Len(blocks)
            /\ \A i \in DOMAIN ops : ops[i].block # j
            /\ pc[MainTask] = "idle"
            /\ last.raised = "UnicodeDecodeError"
    /\ \A i \in DOMAIN ops :
         (InStreamCall /\ ops[i].status = "failed") =>
            /\ i = Len(ops)
            /\ ops[i].block = Len(blocks)
            /\ pc[MainTask] = "idle"
            /\ last.raised = "CallbackError"

\* The coroutine of the first block's callback raised when awaited; the
\* engine had more to deliver.
C7_Witness ==
    /\ InStreamCall
    /\ Len(blocks) = 1
    /\ Len(ops) = 1
    /\ ops[1].kind = "coroutine"
    /\ ops[1].status = "failed"
    /\ last.raised = "CallbackError"

\* C8: the timeout of a request is the per-call timeout when one is given
\* and is not zero, and otherwise the timeout the session was created with.
C8_EffectiveTimeout ==
    Issued =>
        last.sent[1].timeout =
            IF last.tmo # None /\ last.tmo # Some(0)
            THEN last.tmo
            ELSE sessTimeout[Val(last.pre.session)]

\* A streaming call with a per-call timeout of zero runs with the session's 60.
C8_Witness ==
    /\ Issued
    /\ last.op = "stream_get"
    /\ last.tmo = Some(0)
    /\ last.sent[1].timeout = Some(60)

\* url names a scheme: letters, then "://".
IsAbsolute(url) ==
    \E i \in 2..(Len(url) - 2) :
        /\ SubSeq(url, i, i + 2) = <<":", "/", "/">>
        /\ \A k \in 1..(i - 1) : url[k] \notin {":", "/"}

\* C9 (as claimed): the URL of a request is the per-call URL when that is
\* absolute, and otherwise (with a base URL set) the base URL without its
\* trailing slashes, one "/", and the per-call URL without its leading
\* slashes.
C9_EffectiveUrl ==
    (Issued /\ last.pre.base_url # None) =>
        last.sent[1].url =
            IF IsAbsolute(last.url)
            THEN last.url
            ELSE rstrip(Val(last.pre.base_url), {"/"}) \o <<"/">>
                    \o lstrip(last.url, {"/"})

\* C10: the headers of a request have the keys of the defaults and of the
\* per-call headers and no other; a per-call key carries the per-call value,
\* any other key the default value.
C10_MergedHeaders ==
    Issued =>
        LET sentHeaders == last.sent[1].headers
            defaults == last.pre.headers
            percall == IF last.hdrs = None THEN EmptyDict ELSE Val(last.hdrs)
        IN /\ DOMAIN sentHeaders = DOMAIN defaults \cup DOMAIN percall
           /\ \A k \in DOMAIN percall : sentHeaders[k] = percall[k]
           /\ \A k \in DOMAIN defaults \ DOMAIN percall :
                sentHeaders[k] = defaults[k]

\* Defaults {"A":"1","B":"2"} and per-call {"B":"3","C":"4"}.
C10_Witness ==
    /\ Issued
    /\ last.pre.headers = HeadersAB
    /\ last.hdrs = Some(HeadersBC)
    /\ DOMAIN last.sent[1].headers = {"A", "B", "C"}
    /\ last.sent[1].headers["A"] = "1"
    /\ last.sent[1].headers["B"] = "3"
    /\ last.sent[1].headers["C"] = "4"

\* C11: while and after a call, whether it returned or raised, the base URL,
\* the default headers, the default timeout and the held session are those
\* the call found.
C11_CallsLeaveConfig ==
    last.op \in CallOps =>
        /\ base_url = last.pre.base_url
        /\ headers = last.pre.headers
        /\ timeout = last.pre.timeout
        /\ session = last.pre.session

\* A post with per-call headers {"B":"3","C":"4"} over defaults
\* {"A":"1","B":"2"} has ended with a transport failure.
C11_Witness ==
    /\ Completed("post")
    /\ Issued
    /\ last.raised = "TransportError"
    /\ last.hdrs = Some(HeadersBC)
    /\ last.pre.headers = HeadersAB

\* C12: what a one-shot call returns is, for a JSON response, the instance
\* the return_type's factory builds from the decoded payload when a
\* return_type was given and the decoded payload itself when none was, and
\* for any other response the body as text, never an instance; a call that
\* ends without raising returns one of these.
C12_ReturnValue ==
    (last.op \in {"get", "post"} /\ pc[MainTask] = "idle" /\ Issued) =>
        /\ last.raised = "none" <=> last.result # None
        /\ last.result # None =>
             LET r == Val(last.result)
             IN IF resp.ctype = "application/json"
                THEN /\ resp.body = BodyX1
                     /\ DOMAIN r.data = {"x"}
                     /\ r.data["x"] = 1
                     /\ resp.rtype # None =>
                          r.kind = "instance" /\ Some(r.cls) = resp.rtype
                     /\ resp.rtype = None => r.kind = "json"
                ELSE /\ r.kind = "text"
                     /\ r.text = resp.body

\* get with a return_type, answered with JSON {"x":1}: the instance.
C12_Witness ==
    /\ Completed("get")
    /\ resp.ctype = "application/json"
    /\ resp.rtype = Some("Instance")
    /\ last.result # None
    /\ Val(last.result).kind = "instance"
    /\ Val(last.result).data["x"] = 1

\* C13: a request made by get or stream_get is a GET without a body; one
\* made by post or stream_post is a POST whose json body is the body the
\* caller gave.
C13_BodyOnlyOnPost ==
    Issued =>
        LET q == last.sent[1]
        IN /\ last.op \in {"get", "stream_get"} =>
                q.method = "GET" /\ q.json = None
           /\ last.op \in {"post", "stream_post"} =>
                q.method = "POST" /\ q.json = last.body

\* stream_post with a body has issued its request.
C13_Witness ==
    /\ Issued
    /\ last.op = "stream_post"
    /\ last.body = Some("payload")
    /\ last.sent[1].json = Some("payload")

\* C14: a call issues at most one request; when the engine has reported a
\* transport failure, at the issue of the request or while the body was
\* read, the call has ended with that failure, after its one request and
\* without a result.
C14_NoRetry ==
    last.op \in CallOps =>
        /\ Len(last.sent) <= 1
        /\ resp.fault # "none" =>
             /\ pc[MainTask] = "idle"
             /\ last.raised = "TransportError"
             /\ last.result = None
             /\ Len(last.sent) = 1

\* A streaming call whose body failed after its first block.
C14_Witness ==
    /\ InStreamCall
    /\ resp.fault = "body"
    /\ Len(blocks) = 1
    /\ last.raised = "TransportError"

\* No task is inside a call.
Quiescent == \A task \in Tasks : pc[task] = "idle"

\* C15 (as claimed): with lifecycle calls of two tasks overlapping, once
\* they have ended every session created is the one held or is closed, and
\* the session held is not a closed one.
C15_NoLeakOverlap ==
    Quiescent =>
        /\ \A s \in created : s \in session \/ s \in closed
        /\ session \cap closed = {}

\* C15 (amended): with lifecycle calls of two tasks overlapping, the session
\* the client holds is never one whose close() has completed.
C15_HeldSessionOpen == session \cap closed = {}

\* Two initialize calls overlapped in close(): the session the first to
\* resume created is open and no longer held, the client holds the other's.
C15_Witness ==
    /\ Quiescent
    /\ session # None
    /\ closed # {}
    /\ \E s \in created : s \notin session /\ s \notin closed

\* C16 (as claimed): in every state the session held has the configured
\* default timeout.
C16_SessionTimeoutIsDefault ==
    session # None => sessTimeout[Val(session)] = timeout

\* C16 (amended): the session held has the configured default timeout in
\* every state in which no initialize is suspended closing the session it
\* found, and a call without a timeout override runs with the default
\* timeout configured when it was made.
C16_SessionTimeoutBetweenCalls ==
    /\ (session # None /\ \A task \in Tasks : pc[task] # "init_close") =>
           sessTimeout[Val(session)] = timeout
    /\ (Issued /\ ~TruthyNum(last.tmo)) =>
           last.sent[1].timeout = last.pre.timeout

\* A re-initialize that changed the timeout has completed, and its session
\* has the new one.
C16_Witness ==
    /\ Completed("initialize")
    /\ last.pre.session # None
    /\ timeout # last.pre.timeout
    /\ sessTimeout[Val(session)] = timeout

\* C17: with initialize and shutdown running in another task, a call never
\* takes an attribute of an absent session, and a call that found a session
\* issues its request, on that session.
C17_IssuedOnCheckedSession ==
    last.op \in CallOps =>
        /\ last.raised # "AttributeError"
        /\ last.pre.session # None <=> last.sent # <<>>
        /\ last.sent # <<>> => last.sent[1].session = last.pre.session

\* A call made while the other task's shutdown awaits close(): its request
\* is on the session it found, the one being closed.
C17_Witness ==
    /\ Issued
    /\ pc["other"] = "shut_close"
    /\ closing["other"] = last.sent[1].session
    /\ session = last.sent[1].session

\* The positions of a call at which it holds an open response.
InsideAsyncWith == {"request_body", "stream_read", "stream_await"}

\* The positions of a streaming call that has not ended.
Streaming == {"stream_wait", "stream_read", "stream_await"}

\* C18: a response is open only while its call is inside the `async with`
\* block, so it is released when the call ends by return, decode failure,
\* callback failure or transport failure; and a streaming call whose body
\* ends and whose awaited callbacks complete eventually ends.
C18_ReleasedAndReturns ==
    /\ [](resp.state = "open" => pc[MainTask] \in InsideAsyncWith)
    /\ (pc[MainTask] \in Streaming) ~> (pc[MainTask] = "idle")

\* A streaming call ended by a failing callback after its response was
\* opened: the response is released.
C18_Witness ==
    /\ InStreamCall
    /\ pc[MainTask] = "idle"
    /\ last.raised = "CallbackError"
    /\ resp.state = "released"

====
